---- MODULE Spec2Model ----
(***************************************************************************)
(* Capture worker of fleascope-monitor-rs: FleaWorker::run and its         *)
(* helpers (src/src/device_worker.rs) together with the UI-side handle     *)
(* FleaScopeDevice (src/src/worker_interface.rs).                          *)
(*                                                                         *)
(* Processes: the worker task (pc), the hardware read thread (rd), the     *)
(* decode tasks spawned after a read (tasks) and the UI thread (uiState).  *)
(* Channels follow the tokio primitives the code uses:                     *)
(*   - watch (config, waveform): one slot, a version, a per-receiver seen  *)
(*     version; has_changed() is Err once the sender is dropped;           *)
(*   - mpsc (control, notification): bounded FIFO; send().await waits for  *)
(*     room and is Err once the receiver is dropped; blocking_send()       *)
(*     panics when called from inside the async runtime.                   *)
(* The hardware capability (fleascope_rs) is opaque: a read ends with      *)
(* data, with data that does not decode, with a cancel acknowledgement     *)
(* (Ok, nothing to decode) or with an error (Err).                         *)
(***************************************************************************)
EXTENDS Integers, Sequences, FiniteSets, TLC

\* ---------------------------------------------------------------- bounds
MaxUiOps == 3   \* commands, config and waveform writes of one behaviour
MaxReads == 2   \* hardware reads started in one behaviour

\* Capacities of the two bounded channels (set where the device is built)
CtrlCap  == 2   \* control command queue
NotifCap == 1   \* notification channel

\* Time frames are counted in microseconds.
MIN_TIME_FRAME == 122
MAX_TIME_FRAME == 3490000

\* time_frame: 0.1 of the TriggeredCaptureConfig built in FleaScopeDevice::new
DefaultTimeFrame == 100000

\* Values a caller passes to set_time_frame or writes through the handle
TimeInputs == {-1, 0, 10, 121, 122, 123, 100000, 3489999, 3490000, 3490001,
               10000000}

\* read_timeout of get_real_fleascope_data (device.rs), in seconds
ReadTimeout == 5

MaxGenReads == 3   \* reads the data generation task starts in one behaviour
MaxGenOps == 2     \* pause / resume / config signals to that task

MaxSamples == 6    \* samples appended to one ContinuousBuffer
MaxQueries == 2    \* get_data_in_window calls of one behaviour
MaxWidth == 4      \* largest point budget (plot_width) of a query

\* continuous_config.buffer_time, in sample periods
BufferTime == 4

\* frequency_hz.clamp(10, 4000) of set_waveform
MinFrequencyHz == 10
MaxFrequencyHz == 4000

\* frequency_hz: i32
MaxI32 == 2147483647
MinI32 == -MaxI32 - 1

\* Frequencies handed to set_waveform: below, at, inside and above the limits
FrequencyInputs == {MinI32, -1, 0, 9, 10, 11, 100, 3999, 4000, 4001, MaxI32}

\* fleascope_rs::ProbeType
ProbeType == {"X1", "X10"}

\* CaptureModeFlat
CaptureModeFlat == {"Triggered", "Continuous"}

\* Trigger configs: TriggerConfig::default(), and one whose fields the
\* worker cannot encode for the hardware
TriggerConfigs == {"Default", "OutOfRange"}

\* initial_config: the CaptureConfig the device and the worker start from
InitialConfig ==
    [probe_multiplier |-> "X1",
     mode |-> [kind |-> "Triggered", trigger_config |-> "Default",
               time_frame |-> DefaultTimeFrame]]

\* fleascope_rs::Waveform
Waveform == {"Sine", "Square", "Triangle", "Ekg"}

VARIABLES
    pc,              \* worker position in run()
    ret,             \* where the worker continues after an awaited helper
    running,         \* FleaWorker.running
    capture_config,  \* local capture_config of run(): the config sampled last
    ctrl,            \* control command queue (control_rx / control_signal_tx)
    notif,           \* notification channel
    pendingNote,     \* notification of a send().await waiting for room
    cfgSlot,         \* config watch channel: the value in the slot
    cfgSeen,         \* version config_change_rx has marked as seen
    burst,           \* configs published while one read was in flight
    wfVer,           \* version of the waveform watch channel
    wfSeen,          \* version waveform_rx has marked as seen
    hwWave,          \* waveform version last written to the hardware
    hwOp,            \* what the worker's last step called on the hardware
    rd,              \* the hardware read (ReadingFleaScope) if any
    nReads,          \* hardware reads started so far
    tasks,           \* decode tasks spawned and not finished
    snapshot,        \* published DeviceData (ArcSwap)
    loaded,          \* snapshot the worker loaded for a copy-publication
    pubKind,         \* which copy-publication is in progress
    uiState,         \* UI-side FleaScopeDevice
    nEnq,            \* control commands enqueued so far
    applied,         \* the command the worker dequeued last
    time_frame,      \* triggered_config.time_frame of the UI device, in us
    pubTime,         \* time frame of the CaptureConfig published last, in us
    lastTf,          \* the last time-frame operation of the UI and its input
    gen,             \* data generation task of device.rs and its read
    waveform_config, \* waveform_config of the UI device
    waveform_tx,     \* waveform watch channel: the value in the slot
    lastWaveform,    \* the arguments of the last set_waveform call
    row,             \* the row of a frame the decoder works on
    continuous_buffers, \* PlotArea.continuous_buffers: the device's entry
    plotted,         \* the last result of get_data_in_window and its call
    capture_mode,    \* capture_mode of the UI device
    probe_multiplier, \* probe_multiplier of the UI device
    trigger_config,  \* triggered_config.trigger_config of the UI device
    published,       \* the CaptureConfig published last
    batch_rx,        \* stream of Continuous batches to the UI device
    fresh,           \* Continuous mode entered and no frame drawn in it yet
    leftover,        \* commands the try_recv of this iteration left queued
    appended         \* every bnc value add_batch was given, in order

vars == << pc, ret, running, capture_config, ctrl, notif, pendingNote,
           cfgSlot, cfgSeen, burst, wfVer, wfSeen, hwWave, hwOp, rd, nReads,
           tasks, snapshot, loaded, pubKind, uiState, nEnq, applied,
           time_frame, pubTime, lastTf, gen, waveform_config, waveform_tx,
           lastWaveform, row, continuous_buffers, plotted, capture_mode,
           probe_multiplier, trigger_config, published, batch_rx, fresh,
           leftover, appended >>

\* ------------------------------------------------------------ value types
ControlCommand == {"Calibrate0V", "Calibrate3V", "StoreCalibration",
                   "Pause", "Resume", "Step", "Exit"}

NoRead == [st |-> "none", id |-> 0, cfg |-> 0, cancels |-> 0, out |-> "none"]

NoData == [x |-> 0, pts |-> 0, connected |-> FALSE, running |-> FALSE]

NoBurst == [read |-> 0, n |-> 0, last |-> 0]

\* Bits of a u16
BitmapBits == 0 .. 15

\* The nine digital channels of a DataPoint
DigitalChannels == 0 .. 8

\* No row handed to the decoder yet; digital_channels starts as [false; 9]
NoRow == [st |-> "none", bits |-> {}, bitmap |-> 0,
          digital_channels |-> [i \in DigitalChannels |-> FALSE]]

\* No entry for the device in continuous_buffers
NoBuffer == [present |-> FALSE, data |-> << >>, last_t |-> 0]

\* No get_data_in_window call yet
NoPlot == [n |-> 0, window_duration |-> 0, wrap |-> FALSE, plot_width |-> 0,
           of |-> NoBuffer, out |-> << >>, repeat |-> FALSE]

\* WaveformConfig::default()
WaveformDefault ==
    [enabled |-> FALSE, waveform_type |-> "Sine", frequency_hz |-> 100]

NoWaveformCall == [waveform_type |-> "none", frequency_hz |-> 0]

NoTimeFrameOp == [op |-> "none", t |-> 0]

\* The data generation task before its first pass, running by default
GenIdle == [pc |-> "loop", task |-> "none", elapsed |-> 0, paused |-> FALSE,
            changed |-> FALSE, reads |-> 0, ops |-> 0, failures |-> 0,
            stored |-> 0, orphans |-> 0,
            captured |-> 0, sent |-> 0, seen |-> 0, readCfg |-> 0]

\* ------------------------------------------------------- channel helpers
\* The UI-side FleaScopeDevice owns both watch senders and the notification
\* receiver; they are gone once the device value has been dropped.
SendersDropped == uiState = "dropped"

\* pause(), resume() and stop() run on the UI thread, which is the main
\* thread: when one of them panics the process ends, and with it the worker
\* task and the decode tasks.
ProcessAlive == uiState # "panicked"

\* watch::Receiver::has_changed on config_change_rx
ConfigHasChanged == cfgSeen # cfgSlot.ver

\* watch::Receiver::has_changed on waveform_rx
WaveformHasChanged == wfSeen # wfVer

\* (fault variant) the worker keeps the copy it took before
BorrowStale(slot, old) == old

\* watch::Receiver::borrow_and_update().clone(): the value in the slot, not
\* the copy `old` the receiver's owner took before
BorrowAndUpdate(slot, old) == slot

\* (fault variant) borrow() in place of borrow_and_update(): nothing marked as seen
MarkSeenNever(slot) == cfgSeen

\* borrow_and_update marks the version in the slot as seen
MarkSeen(slot) == slot.ver

\* mpsc::Receiver::try_recv / recv: the oldest queued command
Dequeue(q) == Head(q)

\* (fault variant) the pending check takes the command, as try_recv would
PendingCheckConsumes(q) == Tail(q)

\* mpsc::Receiver::is_empty: what the check leaves in the queue
PendingCheck(q) == q

\* ------------------------------------------------------- worker: helpers
\* notification_tx.send(n).await.expect(..) followed by the code at `next`:
\* Err (panic) when the receiver is gone, waits while the channel is full.
SendNotification(n, next) ==
    IF uiState = "dropped"
    THEN /\ pc' = "panicked"
         /\ UNCHANGED << notif, pendingNote, ret >>
    ELSE IF Len(notif) < NotifCap
    THEN /\ notif' = Append(notif, n)
         /\ pc' = next
         /\ UNCHANGED << pendingNote, ret >>
    ELSE /\ pc' = "send_wait"
         /\ pendingNote' = n
         /\ ret' = next
         /\ UNCHANGED notif

\* (fault variant) Resume leaves the flag as it is
set_as_running_noop == running

\* FleaWorker::set_as_running: the value self.running gets
set_as_running == TRUE

\* FleaWorker::handle_control_command(command), called with the idle handle;
\* `next` is where run() continues when the handler returns Ok.
handle_control_command(command, next) ==
    CASE command \in {"Calibrate0V", "Calibrate3V"} ->
            \E ok \in BOOLEAN :
                /\ hwOp' = IF command = "Calibrate0V" THEN "calibrate_0"
                                                      ELSE "calibrate_3v3"
                /\ SendNotification(IF ok THEN "Success" ELSE "Error", next)
                /\ UNCHANGED << running, pubKind >>
      [] command = "StoreCalibration" ->
            \* blocking_send inside the runtime: the call panics
            /\ hwOp' = "write_calibration"
            /\ pc' = "panicked"
            /\ UNCHANGED << running, pubKind, notif, pendingNote, ret >>
      [] command = "Exit" ->
            /\ pc' = "teardown"
            /\ hwOp' = "none"
            /\ UNCHANGED << running, pubKind, notif, pendingNote, ret >>
      [] command = "Pause" ->
            \* set_as_paused: running = false, then sleep(20 ms)
            /\ running' = FALSE
            /\ pubKind' = "pause"
            /\ ret' = next
            /\ pc' = "pub_load"
            /\ hwOp' = "none"
            /\ UNCHANGED << notif, pendingNote >>
      [] command = "Resume" ->
            /\ running' = set_as_running
            /\ pc' = next
            /\ hwOp' = "none"
            /\ UNCHANGED << pubKind, notif, pendingNote, ret >>
      [] command = "Step" ->
            /\ pc' = next
            /\ hwOp' = "none"
            /\ UNCHANGED << running, pubKind, notif, pendingNote, ret >>

\* (fault variant) every copy-publication keeps connected = true
CopyPublicationConnected(kind, data, run) ==
    [x |-> data.x, pts |-> data.pts,
     connected |-> TRUE,
     running |-> IF kind = "exit" THEN FALSE ELSE run]

\* The DeviceData a copy-publication stores: the loaded sample data with the
\* flags of set_as_paused, set_lost_connection or the end of run().
CopyPublication(kind, data, run) ==
    [x |-> data.x, pts |-> data.pts,
     connected |-> (kind = "pause"),
     running |-> IF kind = "exit" THEN FALSE ELSE run]

\* The DeviceData a decode task stores for the read it decoded.
DecodePublication(t) ==
    [x |-> t.rid, pts |-> t.rid, connected |-> TRUE, running |-> t.running]

\* ------------------------------------------------------ worker: run() loop
\* run(), top of the loop: control_rx.try_recv() takes at most one command
\* and hands it to handle_control_command; Err(Exit) breaks the loop.
\* leftover counts the commands that were queued with it and stay queued.
run_try_recv ==
    /\ ProcessAlive
    /\ pc = "top"
    /\ IF ctrl # << >>
       THEN /\ ctrl' = Tail(ctrl)
            /\ applied' = Dequeue(ctrl)
            /\ leftover' = Len(Tail(ctrl))
            /\ handle_control_command(Dequeue(ctrl).cmd, "wave")
       ELSE /\ pc' = "wave"
            /\ hwOp' = "none"
            /\ leftover' = 0
            /\ UNCHANGED << ctrl, applied, running, pubKind, notif,
                            pendingNote, ret >>
    /\ UNCHANGED << capture_config, cfgSlot, cfgSeen, burst, wfVer, wfSeen,
                    hwWave, rd, nReads, tasks, snapshot, loaded, uiState,
                    nEnq, time_frame, pubTime, lastTf, gen, waveform_config,
                    waveform_tx, lastWaveform, row, continuous_buffers,
                    plotted, capture_mode, probe_multiplier, trigger_config,
                    published, batch_rx, fresh, appended >>

\* run(): waveform_rx.has_changed().expect(..), then set_waveform with the
\* value of borrow_and_update when it has changed.
run_waveform_check ==
    /\ ProcessAlive
    /\ pc = "wave"
    /\ IF SendersDropped
       THEN /\ pc' = "panicked"
            /\ hwOp' = "none"
            /\ UNCHANGED << wfSeen, hwWave >>
       ELSE IF WaveformHasChanged
       THEN /\ wfSeen' = wfVer
            /\ hwWave' = wfVer
            /\ hwOp' = "set_waveform"
            /\ pc' = "cfg"
       ELSE /\ pc' = "cfg"
            /\ hwOp' = "none"
            /\ UNCHANGED << wfSeen, hwWave >>
    /\ UNCHANGED << ret, running, capture_config, ctrl, notif, pendingNote,
                    cfgSlot, cfgSeen, burst, wfVer, rd, nReads, tasks,
                    snapshot, loaded, pubKind, uiState, nEnq, applied,
                    time_frame, pubTime, lastTf, gen, waveform_config,
                    waveform_tx, lastWaveform, row, continuous_buffers,
                    plotted, capture_mode, probe_multiplier, trigger_config,
                    published, batch_rx, fresh, leftover, appended >>

\* run(): capture_config = config_change_rx.borrow_and_update().clone(),
\* then the branch on self.running.
run_sample_config ==
    /\ ProcessAlive
    /\ pc = "cfg"
    /\ capture_config' = BorrowAndUpdate(cfgSlot, capture_config)
    /\ cfgSeen' = MarkSeen(cfgSlot)
    /\ pc' = IF running THEN "capture" ELSE "paused"
    /\ hwOp' = "none"
    /\ UNCHANGED << ret, running, ctrl, notif, pendingNote, cfgSlot, burst,
                    wfVer, wfSeen, hwWave, rd, nReads, tasks, snapshot,
                    loaded, pubKind, uiState, nEnq, applied, time_frame,
                    pubTime, lastTf, gen, waveform_config, waveform_tx,
                    lastWaveform, row, continuous_buffers, plotted,
                    capture_mode, probe_multiplier, trigger_config,
                    published, batch_rx, fresh, leftover, appended >>

\* run(), paused: the select! branch waveform_rx.changed(), which marks the
\* value as seen (or is Err once the sender is gone); then `continue`.
run_paused_waveform_changed ==
    /\ ProcessAlive
    /\ pc = "paused"
    /\ WaveformHasChanged \/ SendersDropped
    /\ wfSeen' = wfVer
    /\ pc' = "top"
    /\ hwOp' = "none"
    /\ UNCHANGED << ret, running, capture_config, ctrl, notif, pendingNote,
                    cfgSlot, cfgSeen, burst, wfVer, hwWave, rd, nReads,
                    tasks, snapshot, loaded, pubKind, uiState, nEnq, applied,
                    time_frame, pubTime, lastTf, gen, waveform_config,
                    waveform_tx, lastWaveform, row, continuous_buffers,
                    plotted, capture_mode, probe_multiplier, trigger_config,
                    published, batch_rx, fresh, leftover, appended >>

\* run(), paused: the select! branch Some(command) = control_rx.recv().
run_paused_recv ==
    /\ ProcessAlive
    /\ pc = "paused"
    /\ ctrl # << >>
    /\ ctrl' = Tail(ctrl)
    /\ applied' = Dequeue(ctrl)
    /\ handle_control_command(Dequeue(ctrl).cmd, "top")
    /\ UNCHANGED << capture_config, cfgSlot, cfgSeen, burst, wfVer, wfSeen,
                    hwWave, rd, nReads, tasks, snapshot, loaded, uiState,
                    nEnq, time_frame, pubTime, lastTf, gen, waveform_config,
                    waveform_tx, lastWaveform, row, continuous_buffers,
                    plotted, capture_mode, probe_multiplier, trigger_config,
                    published, batch_rx, fresh, leftover, appended >>

\* A send().await that found the channel full: resumes when the UI has made
\* room, panics (expect on Err) when the receiver has been dropped.
send_resume ==
    /\ ProcessAlive
    /\ pc = "send_wait"
    /\ uiState = "dropped" \/ Len(notif) < NotifCap
    /\ IF uiState = "dropped"
       THEN /\ pc' = "panicked"
            /\ UNCHANGED notif
       ELSE /\ notif' = Append(notif, pendingNote)
            /\ pc' = ret
    /\ pendingNote' = "none"
    /\ ret' = "none"
    /\ hwOp' = "none"
    /\ UNCHANGED << running, capture_config, ctrl, cfgSlot, cfgSeen, burst,
                    wfVer, wfSeen, hwWave, rd, nReads, tasks, snapshot,
                    loaded, pubKind, uiState, nEnq, applied, time_frame,
                    pubTime, lastTf, gen, waveform_config, waveform_tx,
                    lastWaveform, row, continuous_buffers, plotted,
                    capture_mode, probe_multiplier, trigger_config,
                    published, batch_rx, fresh, leftover, appended >>

\* set_as_paused / set_lost_connection after the sleep: data = self.data.load()
publish_load ==
    /\ ProcessAlive
    /\ pc = "pub_load"
    /\ loaded' = snapshot
    /\ pc' = "pub_store"
    /\ hwOp' = "none"
    /\ UNCHANGED << ret, running, capture_config, ctrl, notif, pendingNote,
                    cfgSlot, cfgSeen, burst, wfVer, wfSeen, hwWave, rd,
                    nReads, tasks, snapshot, pubKind, uiState, nEnq, applied,
                    time_frame, pubTime, lastTf, gen, waveform_config,
                    waveform_tx, lastWaveform, row, continuous_buffers,
                    plotted, capture_mode, probe_multiplier, trigger_config,
                    published, batch_rx, fresh, leftover, appended >>

\* self.data.store(..) of set_as_paused, set_lost_connection and the end of
\* run(): the loaded sample data with the flags of the publication.
publish_store ==
    /\ ProcessAlive
    /\ pc = "pub_store"
    /\ snapshot' = CopyPublication(pubKind, loaded, running)
    /\ pc' = ret
    /\ ret' = "none"
    /\ loaded' = NoData
    /\ pubKind' = "none"
    /\ hwOp' = "none"
    /\ UNCHANGED << running, capture_config, ctrl, notif, pendingNote,
                    cfgSlot, cfgSeen, burst, wfVer, wfSeen, hwWave, rd,
                    nReads, tasks, uiState, nEnq, applied, time_frame,
                    pubTime, lastTf, gen, waveform_config, waveform_tx,
                    lastWaveform, row, continuous_buffers, plotted,
                    capture_mode, probe_multiplier, trigger_config,
                    published, batch_rx, fresh, leftover, appended >>

\* run() after the loop: fleascope.teardown(); let data = self.data.load()
run_teardown ==
    /\ ProcessAlive
    /\ pc = "teardown"
    /\ hwOp' = "teardown"
    /\ loaded' = snapshot
    /\ pubKind' = "exit"
    /\ ret' = "done"
    /\ pc' = "pub_store"
    /\ UNCHANGED << running, capture_config, ctrl, notif, pendingNote,
                    cfgSlot, cfgSeen, burst, wfVer, wfSeen, hwWave, rd,
                    nReads, tasks, snapshot, uiState, nEnq, applied,
                    time_frame, pubTime, lastTf, gen, waveform_config,
                    waveform_tx, lastWaveform, row, continuous_buffers,
                    plotted, capture_mode, probe_multiplier, trigger_config,
                    published, batch_rx, fresh, leftover, appended >>

\* ------------------------------------- worker: handle_triggered_capture
\* trigger_to_string, then idle_scope.read_async(time_frame, trigger_str).
\* An unencodable trigger reaches blocking_send inside the runtime (panic);
\* read_async either moves the handle into the read or returns it with Err.
capture_start ==
    /\ ProcessAlive
    /\ pc = "capture"
    /\ IF ~capture_config.trig
       THEN /\ pc' = "panicked"
            /\ hwOp' = "none"
            /\ UNCHANGED << rd, nReads >>
       ELSE \/ /\ nReads < MaxReads
               /\ rd' = [st |-> "inflight", id |-> nReads + 1,
                         cfg |-> capture_config.ver, cancels |-> 0,
                         out |-> "none"]
               /\ nReads' = nReads + 1
               /\ hwOp' = "read_async"
               /\ pc' = "poll"
            \/ /\ pc' = "top"
               /\ hwOp' = "read_async"
               /\ UNCHANGED << rd, nReads >>
    /\ UNCHANGED << ret, running, capture_config, ctrl, notif, pendingNote,
                    cfgSlot, cfgSeen, burst, wfVer, wfSeen, hwWave, tasks,
                    snapshot, loaded, pubKind, uiState, nEnq, applied,
                    time_frame, pubTime, lastTf, gen, waveform_config,
                    waveform_tx, lastWaveform, row, continuous_buffers,
                    plotted, capture_mode, probe_multiplier, trigger_config,
                    published, batch_rx, fresh, leftover, appended >>

\* (fault variant) cancel(); then return to run() without wait()
AfterCancelNoWait == "top"

\* Where handle_triggered_capture goes on after cancel(); break: to
\* fleascope_for_read.wait(), which hands the idle handle back.
AfterCancel == "join"

\* (fault variant) the poll loop cancels on its first pass
PollHitAlways == TRUE

\* The three checks of the poll loop: config_change_rx.has_changed(),
\* waveform_rx.has_changed(), !control_rx.is_empty()
PollHit == ConfigHasChanged \/ WaveformHasChanged \/ ctrl # << >>

\* One pass of `while !fleascope_for_read.is_done()` that leaves the loop by
\* cancel(); break: config change, then waveform change, then a pending
\* control command. has_changed().expect(..) panics once the senders are gone.
capture_poll ==
    /\ ProcessAlive
    /\ pc = "poll"
    /\ rd.st = "inflight"
    /\ SendersDropped \/ PollHit
    /\ IF SendersDropped
       THEN /\ pc' = "panicked"
            /\ UNCHANGED << rd, ctrl >>
       ELSE /\ pc' = AfterCancel
            /\ rd' = [rd EXCEPT !.cancels = @ + 1]
            /\ ctrl' = IF ConfigHasChanged \/ WaveformHasChanged
                       THEN ctrl
                       ELSE PendingCheck(ctrl)
    /\ hwOp' = "none"
    /\ UNCHANGED << ret, running, capture_config, notif, pendingNote,
                    cfgSlot, cfgSeen, burst, wfVer, wfSeen, hwWave, nReads,
                    tasks, snapshot, loaded, pubKind, uiState, nEnq, applied,
                    time_frame, pubTime, lastTf, gen, waveform_config,
                    waveform_tx, lastWaveform, row, continuous_buffers,
                    plotted, capture_mode, probe_multiplier, trigger_config,
                    published, batch_rx, fresh, leftover, appended >>

\* (fault variant) a cancel acknowledgement is taken for an error
WaitIsErrOnCancel(out) == out \in {"error", "cancelled"}

\* match res { Ok(..) => .., Err(_e) => .. } on what wait() returned
WaitIsErr(out) == out = "error"

\* fleascope_for_read.wait() once the read thread has finished, and the match
\* on its result: Err -> set_lost_connection (its notification first);
\* Ok -> spawn the decode task with the running flag of this moment.
capture_join ==
    /\ ProcessAlive
    /\ pc \in {"poll", "join"}
    /\ rd.st = "done"
    /\ rd' = NoRead
    /\ hwOp' = "none"
    /\ IF WaitIsErr(rd.out)
       THEN /\ SendNotification("LostConnection", "lost_set")
            /\ UNCHANGED tasks
       ELSE /\ tasks' = tasks \cup
                   {[rid |-> rd.id, out |-> rd.out, running |-> running]}
            /\ pc' = "top"
            /\ UNCHANGED << notif, pendingNote, ret >>
    /\ UNCHANGED << running, capture_config, ctrl, cfgSlot, cfgSeen, burst,
                    wfVer, wfSeen, hwWave, nReads, snapshot, loaded, pubKind,
                    uiState, nEnq, applied, time_frame, pubTime, lastTf, gen,
                    waveform_config, waveform_tx, lastWaveform, row,
                    continuous_buffers, plotted, capture_mode,
                    probe_multiplier, trigger_config, published, batch_rx,
                    fresh, leftover, appended >>

\* set_lost_connection after its notification: running = false, sleep(20 ms)
set_lost_connection ==
    /\ ProcessAlive
    /\ pc = "lost_set"
    /\ running' = FALSE
    /\ pubKind' = "lost"
    /\ ret' = "top"
    /\ pc' = "pub_load"
    /\ hwOp' = "none"
    /\ UNCHANGED << capture_config, ctrl, notif, pendingNote, cfgSlot,
                    cfgSeen, burst, wfVer, wfSeen, hwWave, rd, nReads, tasks,
                    snapshot, loaded, uiState, nEnq, applied, time_frame,
                    pubTime, lastTf, gen, waveform_config, waveform_tx,
                    lastWaveform, row, continuous_buffers, plotted,
                    capture_mode, probe_multiplier, trigger_config,
                    published, batch_rx, fresh, leftover, appended >>

\* --------------------------------------------------- hardware read thread
\* The read finishes on its own: data, data that will not decode, or an error.
read_completes ==
    /\ rd.st = "inflight"
    /\ rd.cancels = 0
    /\ \E o \in {"data", "malformed", "error"} :
          rd' = [rd EXCEPT !.st = "done", !.out = o]
    /\ UNCHANGED << pc, ret, running, capture_config, ctrl, notif,
                    pendingNote, cfgSlot, cfgSeen, burst, wfVer, wfSeen,
                    hwWave, hwOp, nReads, tasks, snapshot, loaded, pubKind,
                    uiState, nEnq, applied, time_frame, pubTime, lastTf, gen,
                    waveform_config, waveform_tx, lastWaveform, row,
                    continuous_buffers, plotted, capture_mode,
                    probe_multiplier, trigger_config, published, batch_rx,
                    fresh, leftover, appended >>

\* The read returns after cancel(): the cancel acknowledgement (no data), or
\* whatever it had finished with when the cancel arrived.
read_returns_after_cancel ==
    /\ rd.st = "inflight"
    /\ rd.cancels > 0
    /\ \E o \in {"cancelled", "data", "error"} :
          rd' = [rd EXCEPT !.st = "done", !.out = o]
    /\ UNCHANGED << pc, ret, running, capture_config, ctrl, notif,
                    pendingNote, cfgSlot, cfgSeen, burst, wfVer, wfSeen,
                    hwWave, hwOp, nReads, tasks, snapshot, loaded, pubKind,
                    uiState, nEnq, applied, time_frame, pubTime, lastTf, gen,
                    waveform_config, waveform_tx, lastWaveform, row,
                    continuous_buffers, plotted, capture_mode,
                    probe_multiplier, trigger_config, published, batch_rx,
                    fresh, leftover, appended >>

\* ------------------------------------------------------------ decode task
\* (fault variant) the task stores whatever it was given
DecodedAlways(t, current) == DecodePublication(t)

\* What the snapshot holds when task t has ended: parse_csv(..).map(..).map(..)
\* stores new_data only when every stage gave Ok; .ok() drops an Err.
Decoded(t, current) ==
    IF t.out = "data" THEN DecodePublication(t) ELSE current

\* The spawned task: parse_csv, apply_calibration, convert_polars_to_data_points
\* and data_copy.store(new_data).
decode_task ==
    /\ ProcessAlive
    /\ \E t \in tasks :
        /\ tasks' = tasks \ {t}
        /\ snapshot' = Decoded(t, snapshot)
    /\ UNCHANGED << pc, ret, running, capture_config, ctrl, notif,
                    pendingNote, cfgSlot, cfgSeen, burst, wfVer, wfSeen,
                    hwWave, hwOp, rd, nReads, loaded, pubKind, uiState, nEnq,
                    applied, time_frame, pubTime, lastTf, gen,
                    waveform_config, waveform_tx, lastWaveform, row,
                    continuous_buffers, plotted, capture_mode,
                    probe_multiplier, trigger_config, published, batch_rx,
                    fresh, leftover, appended >>

\* ------------------------------------------------ UI: FleaScopeDevice
\* Writes the UI has made so far: commands, configs, waveforms
UiOps == nEnq + (cfgSlot.ver - 1) + wfVer

QueueFull == Len(ctrl) >= CtrlCap

\* The task that ran the worker has ended, by return or by panic, and has
\* dropped the worker with its control receiver: try_send fails with Closed.
QueueClosed == pc \in {"done", "panicked"}

\* control_signal_tx.try_send(command): the queue afterwards
TrySend(q, command) == Append(q, [cmd |-> command, seq |-> nEnq + 1])

\* pause() / resume(): try_send(..).expect(..), a panic when the queue is full
\* or closed
SendOrPanic(command) ==
    /\ uiState = "alive"
    /\ UiOps < MaxUiOps
    /\ IF QueueFull \/ QueueClosed
       THEN /\ uiState' = "panicked"
            /\ UNCHANGED << ctrl, nEnq >>
       ELSE /\ ctrl' = TrySend(ctrl, command)
            /\ nEnq' = nEnq + 1
            /\ UNCHANGED uiState
    /\ UNCHANGED << pc, ret, running, capture_config, notif, pendingNote,
                    cfgSlot, cfgSeen, burst, wfVer, wfSeen, hwWave, hwOp, rd,
                    nReads, tasks, snapshot, loaded, pubKind, applied,
                    time_frame, pubTime, lastTf, gen, waveform_config,
                    waveform_tx, lastWaveform, row, continuous_buffers,
                    plotted, capture_mode, probe_multiplier, trigger_config,
                    published, batch_rx, fresh, leftover, appended >>

pause == SendOrPanic("Pause")

resume == SendOrPanic("Resume")

\* start_calibrate_0v / start_calibrate_3v / start_store_calibration:
\* try_send(..).map_err(..), an Err for the caller when the queue is full or
\* closed
SendOrErr(command) ==
    /\ uiState = "alive"
    /\ UiOps < MaxUiOps
    /\ IF QueueFull \/ QueueClosed
       THEN UNCHANGED << ctrl, nEnq >>
       ELSE /\ ctrl' = TrySend(ctrl, command)
            /\ nEnq' = nEnq + 1
    /\ UNCHANGED << pc, ret, running, capture_config, notif, pendingNote,
                    cfgSlot, cfgSeen, burst, wfVer, wfSeen, hwWave, hwOp, rd,
                    nReads, tasks, snapshot, loaded, pubKind, uiState,
                    applied, time_frame, pubTime, lastTf, gen,
                    waveform_config, waveform_tx, lastWaveform, row,
                    continuous_buffers, plotted, capture_mode,
                    probe_multiplier, trigger_config, published, batch_rx,
                    fresh, leftover, appended >>

start_calibrate_0v == SendOrErr("Calibrate0V")

start_calibrate_3v == SendOrErr("Calibrate3V")

start_store_calibration == SendOrErr("StoreCalibration")

\* stop(self): try_send(Exit).expect(..); the device value is dropped when
\* the call returns.
stop ==
    /\ uiState = "alive"
    /\ UiOps < MaxUiOps
    /\ IF QueueFull \/ QueueClosed
       THEN /\ uiState' = "panicked"
            /\ UNCHANGED << ctrl, nEnq >>
       ELSE /\ ctrl' = TrySend(ctrl, "Exit")
            /\ nEnq' = nEnq + 1
            /\ uiState' = "stopping"
    /\ UNCHANGED << pc, ret, running, capture_config, notif, pendingNote,
                    cfgSlot, cfgSeen, burst, wfVer, wfSeen, hwWave, hwOp, rd,
                    nReads, tasks, snapshot, loaded, pubKind, applied,
                    time_frame, pubTime, lastTf, gen, waveform_config,
                    waveform_tx, lastWaveform, row, continuous_buffers,
                    plotted, capture_mode, probe_multiplier, trigger_config,
                    published, batch_rx, fresh, leftover, appended >>

\* End of stop(self): the FleaScopeDevice is dropped, and with it both watch
\* senders, the control sender and the notification receiver.
drop_device ==
    /\ uiState = "stopping"
    /\ uiState' = "dropped"
    /\ UNCHANGED << pc, ret, running, capture_config, ctrl, notif,
                    pendingNote, cfgSlot, cfgSeen, burst, wfVer, wfSeen,
                    hwWave, hwOp, rd, nReads, tasks, snapshot, loaded,
                    pubKind, nEnq, applied, time_frame, pubTime, lastTf, gen,
                    waveform_config, waveform_tx, lastWaveform, row,
                    continuous_buffers, plotted, capture_mode,
                    probe_multiplier, trigger_config, published, batch_rx,
                    fresh, leftover, appended >>

\* (fault variant) the published config carries the constructor's time frame
PublishedDefault(stored) == DefaultTimeFrame

\* time_frame: self.triggered_config.time_frame of the CaptureConfig that
\* signal_config_change builds: the stored value as it is
PublishedTimeFrame(stored) == stored

\* (fault variant) the probe of the config published before is sent again
CaptureConfigStaleProbe(pm, cm, tc, tf) ==
    [probe_multiplier |-> published.probe_multiplier,
     mode |-> IF cm = "Triggered"
              THEN [kind |-> "Triggered", trigger_config |-> tc,
                    time_frame |-> PublishedTimeFrame(tf)]
              ELSE [kind |-> "Continuous"]]

\* The CaptureConfig signal_config_change builds from the device's fields:
\* the probe and the mode, which in Triggered carries the trigger and the
\* time frame and in Continuous nothing
CaptureConfig(pm, cm, tc, tf) ==
    [probe_multiplier |-> pm,
     mode |-> IF cm = "Triggered"
              THEN [kind |-> "Triggered", trigger_config |-> tc,
                    time_frame |-> PublishedTimeFrame(tf)]
              ELSE [kind |-> "Continuous"]]

\* Whether the worker can encode the trigger of a config of this mode
TriggerEncodes(cm, tc) == cm = "Continuous" \/ tc # "OutOfRange"

\* The worker task has ended and dropped config_change_rx and waveform_rx
ReceiversDropped == pc \in {"done", "panicked"}

\* The burst count after one more config has been published
CountBurst ==
    IF rd.st # "inflight" THEN burst
    ELSE [read |-> rd.id,
          n |-> IF burst.read = rd.id THEN burst.n + 1 ELSE 1,
          last |-> cfgSlot.ver + 1]

\* signal_config_change, the end of set_trigger_config, set_time_frame,
\* set_probe_multiplier and set_capture_mode: the config built from the
\* fields as the write has left them goes to config_change_tx.send(..),
\* which stores it in the slot and returns; with no receiver left send
\* fails and expect panics. burst counts the configs published while the
\* same read was in flight.
signal_config_change ==
    IF ReceiversDropped
    THEN /\ uiState' = "panicked"
         /\ UNCHANGED << cfgSlot, burst, pubTime, published >>
    ELSE /\ uiState' = uiState
         /\ cfgSlot' = [ver |-> cfgSlot.ver + 1,
                        trig |-> TriggerEncodes(capture_mode',
                                                trigger_config')]
         /\ burst' = CountBurst
         /\ pubTime' = IF capture_mode' = "Triggered"
                       THEN PublishedTimeFrame(time_frame') ELSE pubTime
         /\ published' = CaptureConfig(probe_multiplier', capture_mode',
                                       trigger_config', time_frame')

\* set_trigger_config(trigger_config)
set_trigger_config ==
    /\ uiState = "alive"
    /\ UiOps < MaxUiOps
    /\ \E tc \in TriggerConfigs : trigger_config' = tc
    /\ UNCHANGED << capture_mode, probe_multiplier, time_frame >>
    /\ signal_config_change
    /\ UNCHANGED << pc, ret, running, capture_config, ctrl, notif,
                    pendingNote, cfgSeen, wfVer, wfSeen, hwWave, hwOp, rd,
                    nReads, tasks, snapshot, loaded, pubKind, nEnq, applied,
                    lastTf, gen, waveform_config, waveform_tx, lastWaveform,
                    row, continuous_buffers, plotted, batch_rx, fresh,
                    leftover, appended >>

\* set_probe_multiplier(multiplier)
set_probe_multiplier ==
    /\ uiState = "alive"
    /\ UiOps < MaxUiOps
    /\ \E m \in ProbeType : probe_multiplier' = m
    /\ UNCHANGED << capture_mode, trigger_config, time_frame >>
    /\ signal_config_change
    /\ UNCHANGED << pc, ret, running, capture_config, ctrl, notif,
                    pendingNote, cfgSeen, wfVer, wfSeen, hwWave, hwOp, rd,
                    nReads, tasks, snapshot, loaded, pubKind, nEnq, applied,
                    lastTf, gen, waveform_config, waveform_tx, lastWaveform,
                    row, continuous_buffers, plotted, batch_rx, fresh,
                    leftover, appended >>

\* set_capture_mode(mode)
SetCaptureMode(mode) ==
    /\ uiState = "alive"
    /\ UiOps < MaxUiOps
    /\ capture_mode' = mode
    /\ fresh' = IF mode = "Continuous"
                THEN (fresh \/ capture_mode # "Continuous") ELSE FALSE
    /\ lastTf' = [op |-> "set_capture_mode", t |-> time_frame]
    /\ UNCHANGED << probe_multiplier, trigger_config, time_frame >>
    /\ signal_config_change
    /\ UNCHANGED << pc, ret, running, capture_config, ctrl, notif,
                    pendingNote, cfgSeen, wfVer, wfSeen, hwWave, hwOp, rd,
                    nReads, tasks, snapshot, loaded, pubKind, nEnq, applied,
                    gen, waveform_config, waveform_tx, lastWaveform, row,
                    continuous_buffers, plotted, batch_rx, leftover,
                    appended >>

set_capture_mode == \E mode \in CaptureModeFlat : SetCaptureMode(mode)

\* (fault variant) only the lower limit is applied
frequency_clamp_low(f) == IF f < MinFrequencyHz THEN MinFrequencyHz ELSE f

\* frequency_hz.clamp(10, 4000): i32::clamp
frequency_clamp(f) ==
    IF f < MinFrequencyHz THEN MinFrequencyHz
    ELSE IF f > MaxFrequencyHz THEN MaxFrequencyHz ELSE f

\* set_waveform(waveform_type, frequency_hz): store the type, the clamped
\* frequency and enabled = true, then waveform_tx.send(clone of the stored);
\* with no receiver left send fails and expect panics
SetWaveform(waveform_type, frequency_hz) ==
    /\ uiState = "alive"
    /\ UiOps < MaxUiOps
    /\ waveform_config' = [enabled |-> TRUE,
                           waveform_type |-> waveform_type,
                           frequency_hz |-> frequency_clamp(frequency_hz)]
    /\ lastWaveform' = [waveform_type |-> waveform_type,
                         frequency_hz |-> frequency_hz]
    /\ IF ReceiversDropped
       THEN /\ uiState' = "panicked"
            /\ UNCHANGED << waveform_tx, wfVer >>
       ELSE /\ uiState' = uiState
            /\ waveform_tx' = waveform_config'
            /\ wfVer' = wfVer + 1
    /\ UNCHANGED << pc, ret, running, capture_config, ctrl, notif,
                    pendingNote, cfgSlot, cfgSeen, burst, wfSeen, hwWave,
                    hwOp, rd, nReads, tasks, snapshot, loaded, pubKind, nEnq,
                    applied, time_frame, pubTime, lastTf, gen, row,
                    continuous_buffers, plotted, capture_mode,
                    probe_multiplier, trigger_config, published, batch_rx,
                    fresh, leftover, appended >>

\* The ON button of the waveform panel: set_waveform with the stored type
\* and frequency
set_waveform ==
    SetWaveform(waveform_config.waveform_type, waveform_config.frequency_hz)

\* render_device_rack: device.notification_rx.try_recv(), once per frame
try_recv_notification ==
    /\ uiState = "alive"
    /\ notif # << >>
    /\ notif' = Tail(notif)
    /\ UNCHANGED << pc, ret, running, capture_config, ctrl, pendingNote,
                    cfgSlot, cfgSeen, burst, wfVer, wfSeen, hwWave, hwOp, rd,
                    nReads, tasks, snapshot, loaded, pubKind, uiState, nEnq,
                    applied, time_frame, pubTime, lastTf, gen,
                    waveform_config, waveform_tx, lastWaveform, row,
                    continuous_buffers, plotted, capture_mode,
                    probe_multiplier, trigger_config, published, batch_rx,
                    fresh, leftover, appended >>

\* ------------------------------------------------------- specification
\* The state handed to run(): empty queues, the initial config in the slot
\* and seen, an empty snapshot. Whether the worker starts running or paused
\* is left open; the first snapshot shows the same flag.
Init ==
    /\ pc = "top"
    /\ ret = "none"
    /\ running \in BOOLEAN
    /\ cfgSlot = [ver |-> 1, trig |-> TRUE]
    /\ capture_config = cfgSlot
    /\ cfgSeen = 1
    /\ burst = NoBurst
    /\ ctrl = << >>
    /\ notif = << >>
    /\ pendingNote = "none"
    /\ wfVer = 0
    /\ wfSeen = 0
    /\ hwWave = 0
    /\ hwOp = "none"
    /\ rd = NoRead
    /\ nReads = 0
    /\ tasks = {}
    /\ snapshot = [x |-> 0, pts |-> 0, connected |-> TRUE,
                   running |-> running]
    /\ loaded = NoData
    /\ pubKind = "none"
    /\ uiState = "alive"
    /\ nEnq = 0
    /\ applied = [cmd |-> "none", seq |-> 0]
    /\ time_frame = DefaultTimeFrame
    /\ pubTime = DefaultTimeFrame
    /\ lastTf = NoTimeFrameOp
    /\ gen = GenIdle
    /\ waveform_config = WaveformDefault
    /\ waveform_tx = WaveformDefault
    /\ lastWaveform = NoWaveformCall
    /\ row = NoRow
    /\ continuous_buffers = NoBuffer
    /\ plotted = NoPlot
    /\ capture_mode = "Triggered"
    /\ probe_multiplier = "X1"
    /\ trigger_config = "Default"
    /\ published = InitialConfig
    /\ batch_rx = << >>
    /\ fresh = FALSE
    /\ leftover = 0
    /\ appended = << >>

Worker ==
    \/ run_try_recv
    \/ run_waveform_check
    \/ run_sample_config
    \/ run_paused_waveform_changed
    \/ run_paused_recv
    \/ send_resume
    \/ publish_load
    \/ publish_store
    \/ run_teardown
    \/ capture_start
    \/ capture_poll
    \/ capture_join
    \/ set_lost_connection

Hardware == read_completes \/ read_returns_after_cancel

Ui ==
    \/ pause
    \/ resume
    \/ start_calibrate_0v
    \/ start_calibrate_3v
    \/ start_store_calibration
    \/ stop
    \/ drop_device
    \/ set_trigger_config
    \/ set_waveform
    \/ try_recv_notification

Next == Worker \/ Hardware \/ decode_task \/ Ui

Spec == Init /\ [][Next]_vars

\* The worker without the end of run(), which only an Exit command reaches
WorkerLoop ==
    \/ run_try_recv
    \/ run_waveform_check
    \/ run_sample_config
    \/ run_paused_waveform_changed
    \/ run_paused_recv
    \/ send_resume
    \/ publish_load
    \/ publish_store
    \/ capture_start
    \/ capture_poll
    \/ capture_join
    \/ set_lost_connection

\* The pause / resume scenario: the UI sends Pause and Resume commands and
\* waveform writes and drains notifications; the config stays as it is.
PauseResumeNext ==
    \/ WorkerLoop
    \/ Hardware
    \/ decode_task
    \/ pause
    \/ resume
    \/ set_waveform
    \/ try_recv_notification

\* Fairness: the worker task is scheduled whenever it can run; a cancelled
\* read returns; a decode task ends; the UI drains one notification per
\* frame. A read that nobody cancels may wait for its trigger for ever.
PauseResumeSpec ==
    /\ Init
    /\ [][PauseResumeNext]_vars
    /\ WF_vars(WorkerLoop)
    /\ WF_vars(read_returns_after_cancel)
    /\ WF_vars(decode_task)
    /\ WF_vars(try_recv_notification)

\* ------------------------------------------- UI: the Triggered time frame
\* (fault variant) the input is stored as it is
clamp_none(t, lo, hi) == t

\* f64::clamp(self, min, max)
clamp(t, lo, hi) == IF t < lo THEN lo ELSE IF t > hi THEN hi ELSE t

\* set_time_frame(t): store the clamped value, then signal_config_change
set_time_frame ==
    /\ uiState = "alive"
    /\ UiOps < MaxUiOps
    /\ \E t \in TimeInputs :
          /\ time_frame' = clamp(t, MIN_TIME_FRAME, MAX_TIME_FRAME)
          /\ lastTf' = [op |-> "set_time_frame", t |-> t]
    /\ UNCHANGED << capture_mode, probe_multiplier, trigger_config >>
    /\ signal_config_change
    /\ UNCHANGED << pc, ret, running, capture_config, ctrl, notif,
                    pendingNote, cfgSeen, wfVer, wfSeen, hwWave, hwOp, rd,
                    nReads, tasks, snapshot, loaded, pubKind, nEnq, applied,
                    gen, waveform_config, waveform_tx, lastWaveform, row,
                    continuous_buffers, plotted, batch_rx, fresh, leftover,
                    appended >>

\* A write through get_mut_trigger_time_handle(): the handle is a plain
\* &mut f64, so the value stored is whatever the caller writes; nothing is
\* published by the write itself.
get_mut_trigger_time_handle ==
    /\ uiState = "alive"
    /\ \E t \in TimeInputs :
          /\ time_frame' = t
          /\ lastTf' = [op |-> "handle", t |-> t]
    /\ UNCHANGED << pc, ret, running, capture_config, ctrl, notif,
                    pendingNote, cfgSlot, cfgSeen, burst, wfVer, wfSeen,
                    hwWave, hwOp, rd, nReads, tasks, snapshot, loaded,
                    pubKind, uiState, nEnq, applied, pubTime, gen,
                    waveform_config, waveform_tx, lastWaveform, row,
                    continuous_buffers, plotted, capture_mode,
                    probe_multiplier, trigger_config, published, batch_rx,
                    fresh, leftover, appended >>

\* The time-frame operations of a device that stays in Triggered mode:
\* set_capture_mode(Triggered) publishes the stored time frame, as
\* set_trigger_config and set_probe_multiplier do
TimeFrameNext ==
    \/ set_time_frame
    \/ get_mut_trigger_time_handle
    \/ SetCaptureMode("Triggered")

TimeFrameSpec == Init /\ [][TimeFrameNext]_vars

\* ------------------------- device.rs: data generation task and its read
\* Top of the inner loop of start_data_generation: a paused device waits;
\* otherwise, after sleep(20 ms), get_real_fleascope_data hands the read to
\* a blocking thread and arms the timeout. The read gets probe_multiplier,
\* trigger_config and time_frame as start_data_generation captured them
\* before it spawned the task (config 0); gen.sent counts the configs the
\* device has signalled since and gen.seen those the task has noticed.
start_data_generation ==
    /\ gen.pc = "loop"
    /\ IF gen.paused
       THEN gen' = [gen EXCEPT !.pc = "paused"]
       ELSE /\ gen.reads < MaxGenReads
            /\ gen' = [gen EXCEPT !.pc = "read", !.task = "running",
                                  !.elapsed = 0, !.reads = @ + 1,
                                  !.readCfg = gen.captured]
    /\ UNCHANGED << pc, ret, running, capture_config, ctrl, notif,
                    pendingNote, cfgSlot, cfgSeen, burst, wfVer, wfSeen,
                    hwWave, hwOp, rd, nReads, tasks, snapshot, loaded,
                    pubKind, uiState, nEnq, applied, time_frame, pubTime,
                    lastTf, waveform_config, waveform_tx, lastWaveform, row,
                    continuous_buffers, plotted, capture_mode,
                    probe_multiplier, trigger_config, published, batch_rx,
                    fresh, leftover, appended >>

\* select! while paused: sleep(500 ms), or config_change_rx.changed()
data_generation_paused ==
    /\ gen.pc = "paused"
    /\ \/ gen' = [gen EXCEPT !.pc = "loop"]
       \/ /\ gen.changed
          /\ gen' = [gen EXCEPT !.pc = "loop", !.changed = FALSE,
                                !.seen = gen.sent]
    /\ UNCHANGED << pc, ret, running, capture_config, ctrl, notif,
                    pendingNote, cfgSlot, cfgSeen, burst, wfVer, wfSeen,
                    hwWave, hwOp, rd, nReads, tasks, snapshot, loaded,
                    pubKind, uiState, nEnq, applied, time_frame, pubTime,
                    lastTf, waveform_config, waveform_tx, lastWaveform, row,
                    continuous_buffers, plotted, capture_mode,
                    probe_multiplier, trigger_config, published, batch_rx,
                    fresh, leftover, appended >>

\* The blocking thread ends: Some(data), or None (device busy, read or
\* collect failed, columns malformed)
read_task ==
    /\ gen.task = "running"
    /\ \E r \in {"some", "nothing"} : gen' = [gen EXCEPT !.task = r]
    /\ UNCHANGED << pc, ret, running, capture_config, ctrl, notif,
                    pendingNote, cfgSlot, cfgSeen, burst, wfVer, wfSeen,
                    hwWave, hwOp, rd, nReads, tasks, snapshot, loaded,
                    pubKind, uiState, nEnq, applied, time_frame, pubTime,
                    lastTf, waveform_config, waveform_tx, lastWaveform, row,
                    continuous_buffers, plotted, capture_mode,
                    probe_multiplier, trigger_config, published, batch_rx,
                    fresh, leftover, appended >>

\* One second passes while the read is awaited
time_passes ==
    /\ gen.pc = "read"
    /\ gen.task = "running"
    /\ gen.elapsed < ReadTimeout
    /\ gen' = [gen EXCEPT !.elapsed = @ + 1]
    /\ UNCHANGED << pc, ret, running, capture_config, ctrl, notif,
                    pendingNote, cfgSlot, cfgSeen, burst, wfVer, wfSeen,
                    hwWave, hwOp, rd, nReads, tasks, snapshot, loaded,
                    pubKind, uiState, nEnq, applied, time_frame, pubTime,
                    lastTf, waveform_config, waveform_tx, lastWaveform, row,
                    continuous_buffers, plotted, capture_mode,
                    probe_multiplier, trigger_config, published, batch_rx,
                    fresh, leftover, appended >>

\* timeout(read_timeout, read_task) gives Ok(Ok(result)): Some(data) is
\* stored and resets consecutive_failures, None counts a failure
get_real_fleascope_data ==
    /\ gen.pc = "read"
    /\ gen.task \in {"some", "nothing"}
    /\ gen' = [gen EXCEPT
                 !.pc = "loop", !.task = "none",
                 !.stored = IF gen.task = "some" THEN gen.reads ELSE @,
                 !.failures = IF gen.task = "some" THEN 0 ELSE @ + 1]
    /\ UNCHANGED << pc, ret, running, capture_config, ctrl, notif,
                    pendingNote, cfgSlot, cfgSeen, burst, wfVer, wfSeen,
                    hwWave, hwOp, rd, nReads, tasks, snapshot, loaded,
                    pubKind, uiState, nEnq, applied, time_frame, pubTime,
                    lastTf, waveform_config, waveform_tx, lastWaveform, row,
                    continuous_buffers, plotted, capture_mode,
                    probe_multiplier, trigger_config, published, batch_rx,
                    fresh, leftover, appended >>

\* timeout(read_timeout, read_task) gives Err(_): the call returns None, a
\* failure is counted, and the blocking thread goes on with a read whose
\* result nobody takes
read_timeout ==
    /\ gen.pc = "read"
    /\ gen.task = "running"
    /\ gen.elapsed = ReadTimeout
    /\ gen' = [gen EXCEPT !.pc = "loop", !.task = "none",
                          !.failures = @ + 1, !.orphans = @ + 1]
    /\ UNCHANGED << pc, ret, running, capture_config, ctrl, notif,
                    pendingNote, cfgSlot, cfgSeen, burst, wfVer, wfSeen,
                    hwWave, hwOp, rd, nReads, tasks, snapshot, loaded,
                    pubKind, uiState, nEnq, applied, time_frame, pubTime,
                    lastTf, waveform_config, waveform_tx, lastWaveform, row,
                    continuous_buffers, plotted, capture_mode,
                    probe_multiplier, trigger_config, published, batch_rx,
                    fresh, leftover, appended >>

\* select! during the read: config_change_rx.changed() wins, break; the
\* future of get_real_fleascope_data is dropped with whatever it had
config_changed_during_read ==
    /\ gen.pc = "read"
    /\ gen.changed
    /\ gen' = [gen EXCEPT
                 !.pc = "loop", !.task = "none", !.changed = FALSE,
                 !.seen = gen.sent,
                 !.orphans = IF gen.task = "running" THEN @ + 1 ELSE @]
    /\ UNCHANGED << pc, ret, running, capture_config, ctrl, notif,
                    pendingNote, cfgSlot, cfgSeen, burst, wfVer, wfSeen,
                    hwWave, hwOp, rd, nReads, tasks, snapshot, loaded,
                    pubKind, uiState, nEnq, applied, time_frame, pubTime,
                    lastTf, waveform_config, waveform_tx, lastWaveform, row,
                    continuous_buffers, plotted, capture_mode,
                    probe_multiplier, trigger_config, published, batch_rx,
                    fresh, leftover, appended >>

\* A blocking thread whose result nobody takes ends
orphan_read_ends ==
    /\ gen.orphans > 0
    /\ gen' = [gen EXCEPT !.orphans = @ - 1]
    /\ UNCHANGED << pc, ret, running, capture_config, ctrl, notif,
                    pendingNote, cfgSlot, cfgSeen, burst, wfVer, wfSeen,
                    hwWave, hwOp, rd, nReads, tasks, snapshot, loaded,
                    pubKind, uiState, nEnq, applied, time_frame, pubTime,
                    lastTf, waveform_config, waveform_tx, lastWaveform, row,
                    continuous_buffers, plotted, capture_mode,
                    probe_multiplier, trigger_config, published, batch_rx,
                    fresh, leftover, appended >>

\* device.rs FleaScopeDevice::pause / resume: is_paused.store(..)
is_paused_store ==
    /\ gen.ops < MaxGenOps
    /\ \E p \in BOOLEAN : gen' = [gen EXCEPT !.paused = p, !.ops = @ + 1]
    /\ UNCHANGED << pc, ret, running, capture_config, ctrl, notif,
                    pendingNote, cfgSlot, cfgSeen, burst, wfVer, wfSeen,
                    hwWave, hwOp, rd, nReads, tasks, snapshot, loaded,
                    pubKind, uiState, nEnq, applied, time_frame, pubTime,
                    lastTf, waveform_config, waveform_tx, lastWaveform, row,
                    continuous_buffers, plotted, capture_mode,
                    probe_multiplier, trigger_config, published, batch_rx,
                    fresh, leftover, appended >>

\* device.rs FleaScopeDevice::signal_config_change: config_change_tx.send
config_change_tx_send ==
    /\ gen.ops < MaxGenOps
    /\ gen' = [gen EXCEPT !.changed = TRUE, !.ops = @ + 1, !.sent = @ + 1]
    /\ UNCHANGED << pc, ret, running, capture_config, ctrl, notif,
                    pendingNote, cfgSlot, cfgSeen, burst, wfVer, wfSeen,
                    hwWave, hwOp, rd, nReads, tasks, snapshot, loaded,
                    pubKind, uiState, nEnq, applied, time_frame, pubTime,
                    lastTf, waveform_config, waveform_tx, lastWaveform, row,
                    continuous_buffers, plotted, capture_mode,
                    probe_multiplier, trigger_config, published, batch_rx,
                    fresh, leftover, appended >>

DataGenerationNext ==
    \/ start_data_generation
    \/ data_generation_paused
    \/ read_task
    \/ time_passes
    \/ get_real_fleascope_data
    \/ read_timeout
    \/ config_changed_during_read
    \/ orphan_read_ends
    \/ is_paused_store
    \/ config_change_tx_send

DataGenerationSpec == Init /\ [][DataGenerationNext]_vars


\* ------------------------------------------- frame decoder: the bitmap
\* The u16 whose one bits are the members of `bits`
RECURSIVE BitmapOf(_)
BitmapOf(bits) ==
    IF bits = {} THEN 0
    ELSE LET b == CHOOSE x \in bits : TRUE
         IN  2^b + BitmapOf(bits \ {b})

\* a & b on unsigned integers
RECURSIVE BitAnd(_, _)
BitAnd(a, b) ==
    IF a = 0 \/ b = 0 THEN 0
    ELSE (a % 2) * (b % 2) + 2 * BitAnd(a \div 2, b \div 2)

\* (fault variant) the mask of channel i is that of bit i + 1
ShlNext(i) == 2^(i + 1)

\* 1 << i
Shl(i) == 2^i

\* The loop over digital_channels: *ch = (bitmap & (1 << i)) != 0
digital_channels(bitmap) ==
    [i \in DigitalChannels |-> BitAnd(bitmap, Shl(i)) # 0]

\* A row of the frame reaches the decoder: its bitmap column parsed to u16
bitmap_values ==
    /\ row.st = "none"
    /\ \E bits \in SUBSET BitmapBits :
          row' = [row EXCEPT !.st = "parsed", !.bits = bits,
                             !.bitmap = BitmapOf(bits)]
    /\ UNCHANGED << pc, ret, running, capture_config, ctrl, notif,
                    pendingNote, cfgSlot, cfgSeen, burst, wfVer, wfSeen,
                    hwWave, hwOp, rd, nReads, tasks, snapshot, loaded,
                    pubKind, uiState, nEnq, applied, time_frame, pubTime,
                    lastTf, gen, waveform_config, waveform_tx, lastWaveform,
                    continuous_buffers, plotted, capture_mode,
                    probe_multiplier, trigger_config, published, batch_rx,
                    fresh, leftover, appended >>

\* convert_polars_to_data_points, for that row: the DataPoint's channels
convert_polars_to_data_points ==
    /\ row.st = "parsed"
    /\ row' = [row EXCEPT !.st = "point",
                          !.digital_channels = digital_channels(row.bitmap)]
    /\ UNCHANGED << pc, ret, running, capture_config, ctrl, notif,
                    pendingNote, cfgSlot, cfgSeen, burst, wfVer, wfSeen,
                    hwWave, hwOp, rd, nReads, tasks, snapshot, loaded,
                    pubKind, uiState, nEnq, applied, time_frame, pubTime,
                    lastTf, gen, waveform_config, waveform_tx, lastWaveform,
                    continuous_buffers, plotted, capture_mode,
                    probe_multiplier, trigger_config, published, batch_rx,
                    fresh, leftover, appended >>

DecoderNext == bitmap_values \/ convert_polars_to_data_points

DecoderSpec == Init /\ [][DecoderNext]_vars

\* ------------------------------------------- plot area: ContinuousBuffer
\* Time is counted in sample periods (1 / sample_rate_hz): the k-th sample
\* appended has time k. bnc values are small integers; a median is kept as
\* twice its value, so that the mean of two middle values stays an integer.
BncValues == {1, 2}

\* Batches of the stream: one or two samples
Batches == {<< a >> : a \in BncValues}
             \cup {<< a, b >> : a \in BncValues, b \in BncValues}

\* ContinuousBuffer::new: one row (time 0.0, bnc 0.0), last_t = 0.0
ContinuousBuffer_new ==
    [present |-> TRUE, data |-> << [time |-> 0, bnc |-> 0] >>, last_t |-> 0]

\* (fault variant) the times of every batch start again at 0
add_batch_restart(buffer, batch) ==
    [buffer EXCEPT
        !.data = @ \o [j \in 1 .. Len(batch) |->
                          [time |-> j - 1, bnc |-> batch[j]]],
        !.last_t = @ + Len(batch)]

\* add_batch: one row per value at last_t, last_t + 1, ..; vstack
add_batch(buffer, batch) ==
    [buffer EXCEPT
        !.data = @ \o [j \in 1 .. Len(batch) |->
                          [time |-> buffer.last_t + j - 1, bnc |-> batch[j]]],
        !.last_t = @ + Len(batch)]

\* (fault variant) one bin per sample
time_bin_sample(time, window_duration, plot_width) == time

\* (time / time_bin_size).cast(Int32) with time_bin_size = window_duration /
\* plot_width, for time >= 0
time_bin(time, window_duration, plot_width) ==
    (time * plot_width) \div window_duration

\* (fault variant) the window ends at a clock that every call advances
latest_time_clock(buffer) == buffer.last_t + plotted.n

\* let latest_time = self.last_t
latest_time(buffer) == buffer.last_t

SetMin(S) == CHOOSE x \in S : \A y \in S : x <= y

SetMax(S) == CHOOSE x \in S : \A y \in S : x >= y

\* The members of a set of integers in increasing order
RECURSIVE Ascending(_)
Ascending(S) ==
    IF S = {} THEN << >>
    ELSE << SetMin(S) >> \o Ascending(S \ {SetMin(S)})

\* Twice col("bnc").median() of the values v
Median2(v) ==
    LET s == SortSeq(v, LAMBDA a, b : a < b)
        n == Len(s)
    IN  IF n % 2 = 1 THEN 2 * s[(n + 1) \div 2]
        ELSE s[n \div 2] + s[n \div 2 + 1]

\* (fault variant) only the first bin is dropped
drop_first(bins) ==
    IF bins = {} THEN {} ELSE bins \ {SetMin(bins)}

\* filter(idx > 0 and idx < idx.max()) on the bins sorted by time_min: the
\* first and the last bin are dropped. Bins of greater index hold greater
\* times, so the order by time_min is the order by bin index.
drop_first_and_last(bins) ==
    IF bins = {} THEN {} ELSE bins \ {SetMin(bins), SetMax(bins)}

\* get_data_in_window(window_duration, wrap, plot_width): the rows from
\* window_start on, grouped by time bin; per bin the least time and the
\* median; the first and the last bin dropped; times taken modulo the
\* window when wrap is set; sorted by time.
get_data_in_window(buffer, window_duration, wrap, plot_width) ==
    IF Len(buffer.data) = 0 THEN << >>
    ELSE
    LET window_start == latest_time(buffer) - window_duration
        rows == {i \in 1 .. Len(buffer.data) :
                    buffer.data[i].time >= window_start}
        bin(i) == time_bin(buffer.data[i].time, window_duration, plot_width)
        bins == {bin(i) : i \in rows}
        kept == drop_first_and_last(bins)
        time_min(k) == SetMin({buffer.data[i].time :
                                  i \in {j \in rows : bin(j) = k}})
        in_bin(k) == SelectSeq(buffer.data,
                        LAMBDA r : r.time >= window_start /\
                            time_bin(r.time, window_duration, plot_width) = k)
        bnc_median(k) == Median2([j \in 1 .. Len(in_bin(k)) |-> in_bin(k)[j].bnc])
        point(k) == [time |-> IF wrap THEN time_min(k) % window_duration
                              ELSE time_min(k),
                     bnc |-> bnc_median(k)]
        order == Ascending(kept)
        points == [j \in 1 .. Len(order) |-> point(order[j])]
    IN  SortSeq(points, LAMBDA p, q : p.time < q.time)

\* A ContinuousBuffer is created
buffer_new ==
    /\ ~continuous_buffers.present
    /\ continuous_buffers' = ContinuousBuffer_new
    /\ UNCHANGED << pc, ret, running, capture_config, ctrl, notif,
                    pendingNote, cfgSlot, cfgSeen, burst, wfVer, wfSeen,
                    hwWave, hwOp, rd, nReads, tasks, snapshot, loaded,
                    pubKind, uiState, nEnq, applied, time_frame, pubTime,
                    lastTf, gen, waveform_config, waveform_tx, lastWaveform,
                    row, plotted, capture_mode, probe_multiplier,
                    trigger_config, published, batch_rx, fresh, leftover,
                    appended >>

\* buffer.add_batch(batch)
buffer_add_batch ==
    /\ continuous_buffers.present
    /\ \E batch \in Batches :
          /\ continuous_buffers.last_t + Len(batch) <= MaxSamples
          /\ continuous_buffers' = add_batch(continuous_buffers, batch)
          /\ appended' = appended \o batch
    /\ UNCHANGED << pc, ret, running, capture_config, ctrl, notif,
                    pendingNote, cfgSlot, cfgSeen, burst, wfVer, wfSeen,
                    hwWave, hwOp, rd, nReads, tasks, snapshot, loaded,
                    pubKind, uiState, nEnq, applied, time_frame, pubTime,
                    lastTf, gen, waveform_config, waveform_tx, lastWaveform,
                    row, plotted, capture_mode, probe_multiplier,
                    trigger_config, published, batch_rx, fresh, leftover >>

\* buffer.get_data_in_window(window_duration, wrap, plot_width), with the
\* window in sample periods. `of` is the buffer the call was made on and
\* `repeat` tells whether the call before was made on the same buffer with
\* the same arguments.
buffer_get_data_in_window ==
    /\ continuous_buffers.present
    /\ plotted.n < MaxQueries
    /\ \E window_duration \in 1 .. MaxSamples, wrap \in BOOLEAN,
          plot_width \in 1 .. MaxWidth :
          plotted' = [n |-> plotted.n + 1,
                      window_duration |-> window_duration,
                      wrap |-> wrap,
                      plot_width |-> plot_width,
                      of |-> continuous_buffers,
                      out |-> get_data_in_window(continuous_buffers,
                                 window_duration, wrap, plot_width),
                      repeat |-> /\ plotted.n > 0
                                 /\ plotted.of = continuous_buffers
                                 /\ plotted.window_duration = window_duration
                                 /\ plotted.wrap = wrap
                                 /\ plotted.plot_width = plot_width]
    /\ UNCHANGED << pc, ret, running, capture_config, ctrl, notif,
                    pendingNote, cfgSlot, cfgSeen, burst, wfVer, wfSeen,
                    hwWave, hwOp, rd, nReads, tasks, snapshot, loaded,
                    pubKind, uiState, nEnq, applied, time_frame, pubTime,
                    lastTf, gen, waveform_config, waveform_tx, lastWaveform,
                    row, continuous_buffers, capture_mode, probe_multiplier,
                    trigger_config, published, batch_rx, fresh, leftover,
                    appended >>

BufferNext ==
    \/ buffer_new
    \/ buffer_add_batch
    \/ buffer_get_data_in_window

BufferSpec == Init /\ [][BufferNext]_vars

\* cleanup_old_batches(keep_time): keep the last keep_time * sample_rate_hz
\* rows
cleanup_old_batches(buffer, keep_time) ==
    IF Len(buffer.data) > keep_time
    THEN [buffer EXCEPT !.data = SubSeq(@, Len(@) - keep_time + 1, Len(@))]
    ELSE buffer

\* while let Ok(batch) = device.batch_rx.try_recv() { buffer.add_batch(batch) }
RECURSIVE add_batches(_, _)
add_batches(buffer, batches) ==
    IF batches = << >> THEN buffer
    ELSE add_batches(add_batch(buffer, Head(batches)), Tail(batches))

\* The samples of a queue of batches, in order
RECURSIVE Flatten(_)
Flatten(batches) ==
    IF batches = << >> THEN << >>
    ELSE Head(batches) \o Flatten(Tail(batches))

\* The number of samples in a queue of batches
RECURSIVE SampleCount(_)
SampleCount(batches) ==
    IF batches = << >> THEN 0
    ELSE Len(Head(batches)) + SampleCount(Tail(batches))

\* The worker streams a batch while the device is in Continuous mode
batch_tx_send ==
    /\ uiState = "alive"
    /\ capture_mode = "Continuous"
    /\ \E batch \in Batches :
          /\ continuous_buffers.last_t + SampleCount(batch_rx) + Len(batch)
                <= MaxSamples
          /\ batch_rx' = Append(batch_rx, batch)
    /\ UNCHANGED << pc, ret, running, capture_config, ctrl, notif,
                    pendingNote, cfgSlot, cfgSeen, burst, wfVer, wfSeen,
                    hwWave, hwOp, rd, nReads, tasks, snapshot, loaded,
                    pubKind, uiState, nEnq, applied, time_frame, pubTime,
                    lastTf, gen, waveform_config, waveform_tx, lastWaveform,
                    row, continuous_buffers, plotted, capture_mode,
                    probe_multiplier, trigger_config, published, fresh,
                    leftover, appended >>

\* get_analog_data, once per frame and device. Continuous: the entry of
\* the device's name is taken or created, the batches waiting in batch_rx
\* are appended, the buffer is trimmed to buffer_time and the window of
\* buffer_time is queried. Triggered: the published snapshot is plotted
\* and continuous_buffers is not touched.
get_analog_data ==
    /\ uiState = "alive"
    /\ IF capture_mode = "Continuous"
       THEN /\ plotted.n < MaxQueries
            /\ LET entry == IF continuous_buffers.present
                            THEN continuous_buffers ELSE ContinuousBuffer_new
                   buffer == cleanup_old_batches(
                                 add_batches(entry, batch_rx), BufferTime)
               IN  /\ continuous_buffers' = buffer
                   /\ appended' = appended \o Flatten(batch_rx)
                   /\ \E wrap \in BOOLEAN :
                         plotted' =
                            [n |-> plotted.n + 1,
                             window_duration |-> BufferTime,
                             wrap |-> wrap,
                             plot_width |-> MaxWidth,
                             of |-> buffer,
                             out |-> get_data_in_window(buffer, BufferTime,
                                                        wrap, MaxWidth),
                             repeat |-> /\ plotted.n > 0
                                        /\ plotted.of = buffer
                                        /\ plotted.window_duration = BufferTime
                                        /\ plotted.wrap = wrap
                                        /\ plotted.plot_width = MaxWidth]
            /\ batch_rx' = << >>
            /\ fresh' = FALSE
       ELSE /\ plotted' = [plotted EXCEPT !.out = << >>]
            /\ UNCHANGED << continuous_buffers, batch_rx, fresh, appended >>
    /\ UNCHANGED << pc, ret, running, capture_config, ctrl, notif,
                    pendingNote, cfgSlot, cfgSeen, burst, wfVer, wfSeen,
                    hwWave, hwOp, rd, nReads, tasks, snapshot, loaded,
                    pubKind, uiState, nEnq, applied, time_frame, pubTime,
                    lastTf, gen, waveform_config, waveform_tx, lastWaveform,
                    row, capture_mode, probe_multiplier, trigger_config,
                    published, leftover >>

\* The device is removed from the device manager: the FleaScopeDevice and
\* its batch receiver are dropped. PlotArea is not part of the call.
remove_device ==
    /\ uiState = "alive"
    /\ uiState' = "dropped"
    /\ batch_rx' = << >>
    /\ fresh' = FALSE
    /\ UNCHANGED << pc, ret, running, capture_config, ctrl, notif,
                    pendingNote, cfgSlot, cfgSeen, burst, wfVer, wfSeen,
                    hwWave, hwOp, rd, nReads, tasks, snapshot, loaded,
                    pubKind, nEnq, applied, time_frame, pubTime, lastTf, gen,
                    waveform_config, waveform_tx, lastWaveform, row,
                    continuous_buffers, plotted, capture_mode,
                    probe_multiplier, trigger_config, published, leftover,
                    appended >>

\* A device of the same name is added again: a new FleaScopeDevice with
\* the fields of its initial config, in either mode, and a new batch stream
add_device ==
    /\ uiState = "dropped"
    /\ uiState' = "alive"
    /\ \E mode \in CaptureModeFlat :
          /\ capture_mode' = mode
          /\ fresh' = (mode = "Continuous")
          /\ published' = CaptureConfig("X1", mode, "Default",
                                        DefaultTimeFrame)
    /\ probe_multiplier' = "X1"
    /\ trigger_config' = "Default"
    /\ time_frame' = DefaultTimeFrame
    /\ pubTime' = DefaultTimeFrame
    /\ waveform_config' = WaveformDefault
    /\ waveform_tx' = WaveformDefault
    /\ batch_rx' = << >>
    /\ UNCHANGED << pc, ret, running, capture_config, ctrl, notif,
                    pendingNote, cfgSlot, cfgSeen, burst, wfVer, wfSeen,
                    hwWave, hwOp, rd, nReads, tasks, snapshot, loaded,
                    pubKind, nEnq, applied, lastTf, gen, lastWaveform, row,
                    continuous_buffers, plotted, leftover, appended >>

\* The plot area of one device: batches arrive, frames are drawn, the mode
\* is switched, the device is removed and added again
PlotNext ==
    \/ batch_tx_send
    \/ get_analog_data
    \/ set_capture_mode
    \/ remove_device
    \/ add_device

PlotSpec == Init /\ [][PlotNext]_vars

\* ------------------------------------------------ the acquisition cycle
\* The worker with a UI that pauses, resumes and writes the waveform and
\* the trigger config; no calibration and no stop
CaptureNext ==
    \/ WorkerLoop
    \/ Hardware
    \/ decode_task
    \/ pause
    \/ resume
    \/ set_waveform
    \/ set_trigger_config
    \/ try_recv_notification

\* Fairness as in PauseResumeSpec
CaptureSpec ==
    /\ Init
    /\ [][CaptureNext]_vars
    /\ WF_vars(WorkerLoop)
    /\ WF_vars(read_returns_after_cancel)
    /\ WF_vars(decode_task)
    /\ WF_vars(try_recv_notification)
\* =================================================================== claims
ExitQueued == \E i \in 1..Len(ctrl) : ctrl[i].cmd = "Exit"

WorkerStopped == pc \in {"done", "panicked"}

\* C1: the worker loop ends only after the worker has dequeued an Exit
\* command; whenever the worker has stopped, the command it dequeued last
\* is Exit. (Fails: a StoreCalibration command, an unencodable trigger or a
\* dropped device makes the worker panic with no Exit dequeued.)
C1_EndsOnlyOnExit == WorkerStopped => applied.cmd = "Exit"

\* C2: once an Exit command has been enqueued the worker dequeues it and
\* run() returns. A worker that has panicked never dequeues anything, so the
\* claim requires that the worker is never dead while an Exit is still in
\* the queue. (Fails: stop() drops the device right after enqueueing Exit,
\* and has_changed().expect(..) panics; or a StoreCalibration command ahead
\* of the Exit makes the worker panic in blocking_send.)
C2_ExitIsHandled == ExitQueued => pc # "panicked"

\* C3: after run() has returned on Exit the hardware handle is torn down and
\* the snapshot shows connected = false and running = false, and stays so.
\* (Fails: a decode task spawned before the Exit stores connected = true.)
C3_ExitFlagsStay ==
    pc = "done" => /\ ~snapshot.connected
                   /\ ~snapshot.running

\* C4: whenever the worker samples the Config Channel it gets exactly the
\* last published config, however many were published since its previous
\* sampling, marks it as seen, and the versions it samples never go back.
C4_Coalescing ==
    [][ (pc = "cfg" /\ pc' # "cfg") =>
            /\ capture_config' = cfgSlot
            /\ cfgSeen' = cfgSlot.ver
            /\ capture_config'.ver >= capture_config.ver ]_vars

\* C4 witness: two or more configs were published during one read and the
\* worker's next sampling has returned the last of them.
C4_Witness ==
    /\ pc = "capture"
    /\ burst.n >= 2
    /\ capture_config.ver = burst.last
    /\ capture_config = cfgSlot

\* C5: the snapshot's sample data is always the whole output of one decode
\* (or the initial empty data); a decode task of a read that ended with a
\* cancel acknowledgement or without decodable data stores nothing; and the
\* handling of a read that ended with an error does not change the sample
\* data. (Fails: set_lost_connection stores a copy of data it loaded
\* earlier, which takes back what a decode task stored in between.)
C5_AllOrNothing ==
    [][ /\ snapshot'.x = snapshot'.pts
        /\ \A t \in tasks :
              (t \notin tasks' /\ t.out # "data") => snapshot' = snapshot
        /\ (pc = "pub_store" /\ pubKind = "lost" /\ pc' # "pub_store") =>
              snapshot'.x = snapshot.x ]_vars

\* C6: a Pause enqueued while a read is in flight makes the worker cancel
\* the read, apply Pause and reach the paused wait; a Resume enqueued
\* afterwards, with no further input, is applied and the worker calls
\* read_async again.
PauseDuringRead ==
    /\ rd.st = "inflight"
    /\ ctrl # << >>
    /\ Head(ctrl).cmd = "Pause"

ResumeWhilePaused ==
    /\ pc = "paused"
    /\ Len(ctrl) = 1
    /\ Head(ctrl).cmd = "Resume"
    /\ UiOps = MaxUiOps

C6_PauseResume ==
    /\ PauseDuringRead ~> (pc = "paused" \/ ~ProcessAlive)
    /\ ResumeWhilePaused ~> (hwOp = "read_async")

\* C6 witness: the first read was decoded, Pause was applied and published,
\* Resume was applied second and the second read is in flight.
C6_Witness ==
    /\ rd.st = "inflight"
    /\ rd.id = 2
    /\ applied = [cmd |-> "Resume", seq |-> 2]
    /\ snapshot = [x |-> 1, pts |-> 1, connected |-> TRUE, running |-> FALSE]

C9_Fifo ==
    /\ applied.seq + Len(ctrl) = nEnq
    /\ \A i \in 1..Len(ctrl) : ctrl[i].seq = applied.seq + i

\* C9 witness: a read was cancelled for a pending command after an earlier
\* command had been applied, and the pending command is still queued.
C9_Witness ==
    /\ pc = "join"
    /\ rd.cancels = 1
    /\ applied.seq = 1
    /\ Len(ctrl) = 2

\* C10: a read is in flight only between read_async and wait(), so no second
\* read is started meanwhile, and calibration, store-calibration,
\* set-waveform and teardown are called only while no read is in flight.
C10_SingleOwner ==
    /\ rd.st # "none" => pc \in {"poll", "join", "panicked"}
    /\ pc = "capture" => rd.st = "none"
    /\ hwOp \notin {"none", "read_async"} => rd.st = "none"

\* C10 witness: a calibration runs after the read that its command
\* interrupted has been joined.
C10_Witness ==
    /\ hwOp = "calibrate_0"
    /\ nReads = 1
    /\ rd.st = "none"
    /\ tasks # {}

CalibrationCommand == {"Calibrate0V", "Calibrate3V", "StoreCalibration"}

\* The worker's step that dequeues a calibration command and handles it
HandlesCalibration ==
    /\ applied' # applied
    /\ applied'.cmd \in CalibrationCommand

\* C11: while running is false the worker starts no hardware read, and a
\* calibration or store-calibration command it dequeues meanwhile is
\* executed and answered with a notification (sent, or waiting for room).
\* (Fails: the StoreCalibration arm answers with blocking_send, which
\* panics inside the runtime, so no notification is sent.)
C11_PausedCalibration ==
    [][ /\ (pc = "capture" /\ hwOp' = "read_async") => running
        /\ (~running /\ HandlesCalibration) =>
              \/ Len(notif') = Len(notif) + 1
              \/ pc' = "send_wait" ]_vars

\* C12: pause(), resume(), stop() and the three start_* calls report a
\* command that cannot be enqueued to their caller and leave the UI thread
\* running. (Fails: pause(), resume() and stop() call expect(..) on the
\* result of try_send, a panic of the UI thread when the queue is full.)
C12_UiKeepsRunning == uiState # "panicked"

\* C13: the worker never waits for the UI to drain notifications: a
\* notification that finds the channel full is dropped. (Fails: the worker
\* sends with send(..).await, which waits for room.)
C13_NeverWaitsForUi == pc # "send_wait"

\* C14: handling a calibration or store-calibration command emits exactly
\* one notification, leaves running and the snapshot as they are, and the
\* worker goes on with its loop. (Fails: StoreCalibration panics.)
C14_CalibrationFrame ==
    [][ HandlesCalibration =>
            /\ running' = running
            /\ snapshot' = snapshot
            /\ pc' \in {"top", "wave", "send_wait"}
            /\ \/ /\ Len(notif') = Len(notif) + 1
                  /\ notif'[Len(notif')] \in {"Success", "Error"}
               \/ /\ pc' = "send_wait"
                  /\ pendingNote' \in {"Success", "Error"} ]_vars

\* C15: with a trigger that cannot be encoded the worker starts no read,
\* sends one Error notification, sets running to false and goes on to
\* publish it. (Fails: the notification is sent with blocking_send, which
\* panics inside the runtime.)
C15_InvalidTrigger ==
    [][ (pc = "capture" /\ ~capture_config.trig /\ pc' # "capture") =>
            /\ nReads' = nReads
            /\ rd' = NoRead
            /\ ~running'
            /\ pc' \in {"pub_load", "send_wait"} ]_vars

\* C16: a read that fails to start, the cancel of a read, and the join and
\* the decode task of a read that ended with a cancel acknowledgement send
\* no notification and leave running and the snapshot as they are; after a
\* failed start or the join the worker is back at the top of its loop.
C16_SilentRetry ==
    [][ /\ (pc = "capture" /\ pc' = "top") =>
              /\ notif' = notif
              /\ running' = running
              /\ snapshot' = snapshot
              /\ rd' = NoRead
        /\ (rd'.cancels > rd.cancels) =>
              /\ notif' = notif
              /\ running' = running
              /\ snapshot' = snapshot
        /\ (rd.st = "done" /\ rd.out = "cancelled" /\ rd' = NoRead) =>
              /\ notif' = notif
              /\ pendingNote' = pendingNote
              /\ running' = running
              /\ snapshot' = snapshot
              /\ pc' = "top"
        /\ \A t \in tasks :
              (t \notin tasks' /\ t.out = "cancelled") =>
                  /\ snapshot' = snapshot
                  /\ notif' = notif
                  /\ running' = running ]_vars

\* C16 witness: the first read was cancelled and joined with a cancel
\* acknowledgement; the worker is back at the top, running, nothing notified.
C16_Witness ==
    /\ pc = "top"
    /\ running
    /\ nReads = 1
    /\ [rid |-> 1, out |-> "cancelled", running |-> TRUE] \in tasks
    /\ notif = << >>
    /\ pendingNote = "none"
    /\ snapshot.connected

\* C17: a decode task whose data does not decode stores nothing: the
\* snapshot after it is the snapshot before it; and the worker, which does
\* not wait for the task, is back at the top of its loop after the join.
C17_FailedDecode ==
    [][ /\ \A t \in tasks :
              (t \notin tasks' /\ t.out = "malformed") => snapshot' = snapshot
        /\ (rd.st = "done" /\ rd.out = "malformed" /\ rd' = NoRead) =>
              /\ snapshot' = snapshot
              /\ pc' = "top"
              /\ running' = running ]_vars

\* C17 witness: read 1 was decoded, read 2 did not decode and its task has
\* ended; the snapshot still holds the data of read 1.
C17_Witness ==
    /\ nReads = 2
    /\ rd = NoRead
    /\ tasks = {}
    /\ snapshot.x = 1
    /\ snapshot.pts = 1
    /\ pc = "top"
    /\ running

\* C18: a read in flight ends only by its own completion, by an error, or
\* by a cancel made for a config change, a waveform change or a pending
\* control command; the passage of time alone never ends the wait for a
\* read or discards its data. (Fails: get_real_fleascope_data in device.rs
\* gives the read up after read_timeout and drops what it returns later.)
C18_NoFixedTimeout ==
    [][ /\ (rd'.cancels > rd.cancels) =>
              \/ ConfigHasChanged
              \/ WaveformHasChanged
              \/ ctrl # << >>
        /\ (rd.st = "inflight" /\ rd'.st # "inflight") =>
              /\ rd'.st = "done"
              /\ rd'.out \in {"data", "malformed", "cancelled", "error"}
              /\ rd'.out = "cancelled" => rd.cancels > 0
        /\ (gen.pc = "read" /\ gen.task = "running" /\ gen'.pc # "read") =>
              gen.changed ]_vars

InRange(t) == MIN_TIME_FRAME <= t /\ t <= MAX_TIME_FRAME

Min2(a, b) == IF a <= b THEN a ELSE b

Max2(a, b) == IF a >= b THEN a ELSE b

\* C19: after set_time_frame(t) the stored and the published time frame are
\* min(max(t, 122 us), 3.49 s): t itself inside the range, 122 us below it,
\* 3.49 s above it.
C19_SetTimeFrameClamps ==
    lastTf.op = "set_time_frame" =>
        /\ time_frame = Min2(Max2(lastTf.t, 122), 3490000)
        /\ pubTime = time_frame
        /\ InRange(lastTf.t) => time_frame = lastTf.t
        /\ lastTf.t < 122 => time_frame = 122
        /\ lastTf.t > 3490000 => time_frame = 3490000

\* C19 witness: the first publish is set_time_frame(10 s), which has stored
\* and published 3.49 s.
C19_Witness ==
    /\ lastTf = [op |-> "set_time_frame", t |-> 10000000]
    /\ time_frame = 3490000
    /\ pubTime = 3490000
    /\ cfgSlot.ver = 2

ConfigWriteNext ==
    \/ \E w \in Waveform, f \in FrequencyInputs : SetWaveform(w, f)
    \/ set_probe_multiplier
    \/ set_trigger_config
    \/ set_time_frame
    \/ set_capture_mode
    \/ get_mut_trigger_time_handle

ConfigWriteSpec == Init /\ [][ConfigWriteNext]_vars

\* C21: every WaveformConfig that set_waveform publishes has a frequency
\* within [10, 4000] Hz: an input below 10 is published as 10, one above
\* 4000 as 4000, one inside the range as it is.
C21_FrequencyClamped ==
    lastWaveform.waveform_type # "none" =>
        /\ waveform_tx.frequency_hz >= 10
        /\ waveform_tx.frequency_hz <= 4000
        /\ lastWaveform.frequency_hz < 10 => waveform_tx.frequency_hz = 10
        /\ lastWaveform.frequency_hz > 4000 => waveform_tx.frequency_hz = 4000
        /\ (lastWaveform.frequency_hz >= 10 /\ lastWaveform.frequency_hz <= 4000)
              => waveform_tx.frequency_hz = lastWaveform.frequency_hz
        /\ waveform_tx.waveform_type = lastWaveform.waveform_type
        /\ waveform_tx.enabled

\* C21 witness: set_waveform(Square, 4001) has published Square at 4000 Hz
\* after an earlier call had published a frequency inside the range.
C21_Witness ==
    /\ lastWaveform = [waveform_type |-> "Square", frequency_hz |-> 4001]
    /\ waveform_tx.frequency_hz = 4000
    /\ wfVer = 2

\* C22: for every bitmap value the decoder sets digital channel i (0..8)
\* to true exactly when bit i of the bitmap is 1; the bits above bit 8
\* change nothing.
C22_BitmapDecoding ==
    row.st = "point" =>
        /\ DOMAIN row.digital_channels = 0 .. 8
        /\ \A i \in 0 .. 8 : row.digital_channels[i] <=> i \in row.bits
        /\ row.digital_channels =
              digital_channels(BitmapOf(row.bits \cap (0 .. 8)))

\* C22 witness: bitmap 0x8355 (0x155 with bits 9 and 15 set as well) has
\* been decoded to channels 0, 2, 4, 6 and 8 on, the others off.
C22_Witness ==
    /\ row.st = "point"
    /\ row.bitmap = 33621
    /\ row.bits = {0, 2, 4, 6, 8, 9, 15}
    /\ row.digital_channels =
          [i \in 0 .. 8 |-> i \in {0, 2, 4, 6, 8}]

\* C23: after N samples have been appended to an empty ContinuousBuffer, a
\* query for a window of N sample periods (N / R seconds) with point
\* budget P returns at most P points, and every returned time lies within
\* the window [0, N / R] widened by one bin width (N / R / P) on each side.
C23_WindowRoundTrip ==
    (plotted.n > 0 /\ plotted.window_duration = plotted.of.last_t) =>
        /\ Len(plotted.out) <= plotted.plot_width
        /\ \A j \in 1 .. Len(plotted.out) :
              /\ plotted.out[j].time * plotted.plot_width
                    >= - plotted.window_duration
              /\ plotted.out[j].time * plotted.plot_width
                    <= plotted.window_duration * plotted.plot_width
                          + plotted.window_duration

\* C23 witness: six samples appended, queried with a window of six sample
\* periods and a budget of four points: two points come back.
C23_Witness ==
    /\ plotted.n > 0
    /\ plotted.of.last_t = 6
    /\ plotted.window_duration = 6
    /\ plotted.plot_width = 4
    /\ Len(plotted.out) = 2

C26_WholeConfig ==
    [][ (cfgSlot'.ver # cfgSlot.ver) =>
            /\ uiState' = "alive"
            /\ cfgSlot'.ver = cfgSlot.ver + 1
            /\ published'.probe_multiplier = probe_multiplier'
            /\ published'.mode.kind = capture_mode'
            /\ capture_mode' = "Triggered" =>
                  /\ published'.mode.trigger_config = trigger_config'
                  /\ published'.mode.time_frame = time_frame'
            /\ Cardinality(
                  {f \in {"probe", "mode", "trigger", "time"} :
                      \/ f = "probe" /\ probe_multiplier' # probe_multiplier
                      \/ f = "mode" /\ capture_mode' # capture_mode
                      \/ f = "trigger" /\ trigger_config' # trigger_config
                      \/ f = "time" /\ time_frame' # time_frame}) <= 1 ]_vars

\* C26 witness: three writes have set the probe, the trigger and the time
\* frame one after the other, and the config published last carries all
\* three new values.
C26_Witness ==
    /\ cfgSlot.ver = 4
    /\ probe_multiplier = "X10"
    /\ trigger_config = "OutOfRange"
    /\ time_frame = 3490000
    /\ published = [probe_multiplier |-> "X10",
                    mode |-> [kind |-> "Triggered",
                              trigger_config |-> "OutOfRange",
                              time_frame |-> 3490000]]

\* C25: the first frame drawn after the device has entered Continuous
\* mode, by a mode switch or by being added again after removal, leaves a
\* buffer that holds nothing but the batches received for that frame, with
\* a timestamp counter that counts only their samples: the buffer of the
\* earlier stay in Continuous mode is gone. (Fails: no code removes an entry
\* from continuous_buffers, so the frame appends to the old buffer.)
C25_BufferDiscarded ==
    [][ (fresh /\ ~fresh' /\ plotted'.n = plotted.n + 1) =>
            /\ continuous_buffers'.last_t = SampleCount(batch_rx)
            /\ continuous_buffers' =
                  cleanup_old_batches(
                      add_batches(ContinuousBuffer_new, batch_rx),
                      BufferTime) ]_vars

\* C27: a read is started only in an iteration whose look at the command
\* queue left it empty: every command that was queued at the start of the
\* iteration has been applied before read_async is called. (Fails: try_recv
\* takes one command per iteration; a second command queued with it is
\* still in the queue when the read starts.)
C27_AllAppliedBeforeRead ==
    [][ (nReads' = nReads + 1) => leftover = 0 ]_vars

C29_WaveformApplied ==
    \A v \in 1 .. MaxUiOps :
        (wfVer = v) ~> \/ hwWave = v
                       \/ wfVer > v
                       \/ pc = "panicked"
                       \/ ~ProcessAlive

\* The worker's part of C30: the sample at the top of the iteration takes
\* the config in the slot, and the read of that iteration is started with
\* the config sampled
WorkerReadsSample ==
    /\ (pc = "cfg" /\ pc' # "cfg") =>
          /\ capture_config' = cfgSlot
          /\ cfgSeen' = cfgSlot.ver
    /\ (nReads' = nReads + 1) =>
          /\ rd'.cfg = capture_config.ver
          /\ rd'.cfg = cfgSeen
          /\ rd'.cfg >= burst.last

\* C30: every read is started with the config that was the latest when the
\* reading task last looked at the config channel: the worker's read with
\* the config it sampled in that iteration, which is then not older than
\* any config that cancelled the read before; the data generation task's
\* read with the config whose signal it has noticed. (Fails: the task of
\* start_data_generation reads with the values captured before it was
\* spawned, whatever config has been signalled since.)
C30_ReadUsesLatestConfig ==
    [][ /\ WorkerReadsSample
        /\ (gen.pc # "read" /\ gen'.pc = "read") =>
              gen'.readCfg = gen.seen ]_vars

\* ------------------------------------------- claims about the plot buffer
\* The number, from 0, of the appended sample that row i of the buffer
\* holds when the buffer holds the latest rows; -1 for the row that
\* ContinuousBuffer::new created
SampleOfRow(i) == Len(appended) - Len(continuous_buffers.data) + i - 1

TrimKeepsLatest ==
    continuous_buffers.present =>
        LET data == continuous_buffers.data
        IN  /\ Len(data) = Min2(Len(appended) + 1, BufferTime)
            /\ \A i \in 1 .. Len(data) :
                  IF SampleOfRow(i) >= 0
                  THEN data[i].bnc = appended[SampleOfRow(i) + 1]
                  ELSE data[i] = ContinuousBuffer_new.data[1]

\* C32: after a frame has appended the waiting batches and trimmed, the
\* buffer holds at most BufferTime rows (the horizon times the sample
\* rate), every row is an appended sample and the rows are the latest
\* appended samples in their order, none dropped while they fit the
\* horizon
C32_TrimmedToHorizon ==
    continuous_buffers.present =>
        LET data == continuous_buffers.data
        IN  /\ Len(data) <= BufferTime
            /\ Len(data) = Min2(Len(appended), BufferTime)
            /\ \A i \in 1 .. Len(data) :
                  /\ SampleOfRow(i) >= 0
                  /\ data[i].bnc = appended[SampleOfRow(i) + 1]

\* The times of the rows of the last query's buffer that lie in its window
WindowTimes ==
    {plotted.of.data[i].time : i \in
        {j \in 1 .. Len(plotted.of.data) :
            plotted.of.data[j].time
                >= plotted.of.last_t - plotted.window_duration}}

\* The bin of width window_duration / plot_width that holds time t
BinOfTime(t) ==
    CHOOSE k \in 0 .. MaxSamples * MaxWidth :
        /\ k * plotted.window_duration <= t * plotted.plot_width
        /\ t * plotted.plot_width < (k + 1) * plotted.window_duration

\* The least time of the window in bin k
LeastTimeIn(k) == SetMin({t \in WindowTimes : BinOfTime(t) = k})

\* C33: a window query returns one point for every populated bin of width
\* window / P except the earliest and the latest populated bin, each at
\* the bin's least time (modulo the window when wrap is set), in increasing
\* time order; with at most two populated bins it returns nothing
C33_BinnedWindow ==
    plotted.n > 0 =>
        LET populated == {BinOfTime(t) : t \in WindowTimes}
            inner == {k \in populated :
                         /\ \E e \in populated : e < k
                         /\ \E l \in populated : l > k}
            shown(k) == IF plotted.wrap
                        THEN LeastTimeIn(k) % plotted.window_duration
                        ELSE LeastTimeIn(k)
        IN  /\ Len(plotted.out) = Cardinality(inner)
            /\ {plotted.out[j].time : j \in 1 .. Len(plotted.out)}
                  = {shown(k) : k \in inner}
            /\ \A j \in 1 .. Len(plotted.out) - 1 :
                  plotted.out[j].time < plotted.out[j + 1].time
            /\ Cardinality(populated) <= 2 => plotted.out = << >>

\* C33 witness: a wrapped query over four populated bins has returned the
\* two inner bins
C33_Witness ==
    /\ plotted.n > 0
    /\ plotted.wrap
    /\ Cardinality({BinOfTime(t) : t \in WindowTimes}) = 4
    /\ Len(plotted.out) = 2
    /\ plotted.out[1].time < plotted.out[2].time

\* ------------------------------------- claims about the published snapshot
\* C34: the sample data of the snapshot is never replaced by the data of
\* an older read: no publication, by a decode task or by a copy of data
\* loaded earlier, lowers the read whose data the snapshot carries
C34_NoOlderData ==
    [][snapshot'.x >= snapshot.x]_vars

\* C35: once a Pause has been applied and its publication made, and until
\* a Resume is applied, the snapshot shows running = false when the decode
\* tasks of the earlier reads have ended, and so keeps showing it
C35_PausedShown ==
    (pc = "paused" /\ ~running /\ tasks = {}) => ~snapshot.running

\* C36: with the control queue empty and no decode task outstanding, the
\* snapshot's running flag equals the worker's own from the start of a
\* read on: a Resume that has been applied shows in the snapshot no later
\* than the start of the next read
C36_RunningFlagFresh ==
    (pc = "poll" /\ rd.st = "inflight" /\ ctrl = << >> /\ tasks = {})
        => snapshot.running = running

\* C37: once the snapshot shows connected = false it shows connected =
\* true again only by the store of a decode task; no copy-publication of a
\* Pause, and no Resume, Step, calibration command or invalid trigger,
\* sets connected back to true
C37_ConnectedOnlyByDecode ==
    [][ (~snapshot.connected /\ snapshot'.connected) =>
            \E t \in tasks : /\ tasks' = tasks \ {t}
                             /\ t.out = "data"
                             /\ snapshot' = DecodePublication(t) ]_vars

\* C38: whenever the worker task stops, for whatever reason, the step
\* that stops it is the store of the exit publication, made after the
\* hardware teardown, and leaves the snapshot at connected = false and
\* running = false
C38_StopsTornDown ==
    [][ (pc # pc' /\ pc' \in {"done", "panicked"}) =>
            /\ pc = "pub_store"
            /\ pubKind = "exit"
            /\ ~snapshot'.connected
            /\ ~snapshot'.running ]_vars

\* C39: a buffer made by ContinuousBuffer::new holds no samples: with N
\* samples appended and no trim it holds exactly N rows, each one an
\* appended sample in its place, and a query returns only values derived
\* from appended samples (medians lie between the least and the greatest
\* sample; they are kept doubled)
C39_OnlyAppendedRows ==
    continuous_buffers.present =>
        /\ Len(continuous_buffers.data) = Len(appended)
        /\ \A i \in 1 .. Len(continuous_buffers.data) :
              /\ i <= Len(appended)
              /\ continuous_buffers.data[i].bnc = appended[i]
        /\ \A j \in 1 .. Len(plotted.out) :
              /\ plotted.out[j].bnc >= 2 * SetMin(BncValues)
              /\ plotted.out[j].bnc <= 2 * SetMax(BncValues)
====
